---- MODULE Spec2Model ----
(***************************************************************************)
(* Model of src/main.py: the Streamlit front end `main` and the class      *)
(* VideoDownloader (validate_url, get_video_source, normalize_youku_url,   *)
(* get_download_options, clear_cache, download_video_content).             *)
(*                                                                         *)
(* Strings are TLA+ strings; startswith / `in` / re.search are computed    *)
(* character by character with SubSeq.  The collaborators (yt-dlp, the     *)
(* filesystem, Streamlit's display calls) are nondeterministic.            *)
(***************************************************************************)
EXTENDS Integers, Sequences, FiniteSets, TLC

\* ------------------------------------------------------------------ bounds
\* Number of fragments concatenated to build an input URL (SpecUrl).
MaxFrags == 3

\* --------------------------------------------------------- string helpers
\* str.startswith(prefix)
StartsWith(s, p) ==
    /\ Len(s) >= Len(p)
    /\ SubSeq(s, 1, Len(p)) = p

\* `sub in s`
Contains(s, sub) ==
    \E i \in 1..(Len(s) - Len(sub) + 1) : SubSeq(s, i, i + Len(sub) - 1) = sub

\* ------------------------------------------------ VideoDownloader (pure)
validate_url_no_substring(url) ==
    \/ StartsWith(url, "https://www.youtube.com/") \/ StartsWith(url, "https://youtu.be/")
    \/ StartsWith(url, "https://v.youku.com/") \/ StartsWith(url, "https://m.youku.com/")

validate_url(url) ==
    LET youtube_valid == \/ StartsWith(url, "https://www.youtube.com/")
                         \/ StartsWith(url, "https://youtu.be/")
        youku_valid   == \/ StartsWith(url, "https://v.youku.com/")
                         \/ StartsWith(url, "https://m.youku.com/")
                         \/ Contains(url, "youku.com")
    IN  youtube_valid \/ youku_valid

get_video_source(url) ==
    IF StartsWith(url, "https://www.youtube.com/") \/ StartsWith(url, "https://youtu.be/")
    THEN "youtube"
    ELSE IF Contains(url, "youku.com") THEN "youku"
    ELSE "unknown"

\* re.search(r'vid=([^&]+)', url): the start positions at which the pattern
\* matches ("vid=" followed by at least one character other than "&").
VidMatchStarts(url) ==
    { i \in 1..Len(url) :
        /\ i + 4 <= Len(url)
        /\ SubSeq(url, i, i + 3) = "vid="
        /\ SubSeq(url, i + 4, i + 4) # "&" }

Min(S) == CHOOSE x \in S : \A y \in S : x <= y

\* vid_match.group(1) of the leftmost match: the longest run of non-"&"
\* characters after "vid=".
VidGroup(url) ==
    LET i     == Min(VidMatchStarts(url))
        amps  == { k \in (i + 4)..Len(url) : SubSeq(url, k, k) = "&" }
        last  == IF amps = {} THEN Len(url) ELSE Min(amps) - 1
    IN  SubSeq(url, i + 4, last)

normalize_youku_url(url) ==
    IF Contains(url, "youku.com") /\ Contains(url, "vid=")
    THEN IF VidMatchStarts(url) # {}
         THEN "https://v.youku.com/v_show/id_" \o VidGroup(url) \o ".html"
         ELSE url
    ELSE url

\* get_download_options(mode, use_cookies): the fields that depend on the
\* arguments ("audio" stands for the mode '音声のみ', "video" for '映像').
get_download_options(mode, cookies) ==
    [ format        |-> IF mode = "audio" THEN "bestaudio/best" ELSE "best[ext=mp4]/best",
      postprocessor |-> IF mode = "audio" THEN "FFmpegExtractAudio:mp3:192"
                                          ELSE "FFmpegVideoConvertor:mp4",
      cookiesfrombrowser |-> IF cookies THEN "firefox" ELSE "",
      extractor_retries  |-> 5,
      fragment_retries   |-> 5,
      geo_bypass         |-> TRUE,
      no_check_certificate |-> TRUE ]

\* ------------------------------------------------------------- constants
max_attempts == 3

\* str(e) of the exception raised at line 250 ("403エラーが継続しています。
\* 後で再試行してください。"), written in ASCII; it contains "403".
PersistentMsg == "403 error persists, retry later"

\* Messages of the exceptions YoutubeDL.download may raise.
FetchMsgs == { "HTTP Error 403", "Forbidden", "timed out" }

\* Log entries of a fetch call that did not raise an Exception.
FetchOk == "ok"
FetchBase == "<BaseException>"

\* Names yt-dlp may give a file under outtmpl 'downloaded_file.%(ext)s'.
FileNames == { "downloaded_file.mp4", "downloaded_file.webm" }

\* The text typed into st.text_input.
UrlSamples == { "", "https://example.com/a", "https://youtu.be/a",
                "https://v.youku.com/v_show/?vid=a", "https://m.youku.com/a" }

NoExc == [cls |-> "none", msg |-> ""]
NoneResult == [ok |-> FALSE, file_data |-> 0, file_name |-> ""]
NoOpt == [format |-> ""]

\* ----------------------------------------------------------------- state
VARIABLES
    pc,            \* position of the script run
    video_url,     \* main: st.text_input
    ope_mode,      \* main: st.radio
    use_cookies,   \* main: sidebar checkbox
    clear_cache,   \* main: sidebar checkbox
    url,           \* download_video_content: parameter, rebound at line 207
    cache_clears,  \* call sites from which clear_cache() ran in this run
    temp_dir,      \* "none" | "exists" | "removed"
    files,         \* entries of temp_dir: <<name, attempt that wrote it>>
    yt_opt,        \* options handed to YoutubeDL
    attempt,       \* loop variable of line 231
    fetch_log,     \* outcome of every yt.download call, in order
    sleeps,        \* argument of every time.sleep call, in order
    caught,        \* str(e) in the inner except clause
    exc,           \* exception in flight
    downloaded_files, \* what glob returned at line 255
    result,        \* return value of download_video_content
    error_text,    \* error_msg shown by st.error at line 266
    shown,         \* texts displayed by the handler and by main
    u, upc, u_valid, u_source, u_norm1, u_norm2   \* evaluation of the URL functions

mainvars == << pc, video_url, ope_mode, use_cookies, clear_cache, url, cache_clears,
               temp_dir, files, yt_opt, attempt, fetch_log, sleeps, caught, exc,
               downloaded_files, result, error_text, shown >>
urlvars == << u, upc, u_valid, u_source, u_norm1, u_norm2 >>
vars == << mainvars, urlvars >>

MainInit ==
    /\ pc = "idle"
    /\ video_url = ""
    /\ ope_mode = "audio"
    /\ use_cookies = FALSE
    /\ clear_cache = FALSE
    /\ url = ""
    /\ cache_clears = {}
    /\ temp_dir = "none"
    /\ files = {}
    /\ yt_opt = NoOpt
    /\ attempt = 0
    /\ fetch_log = << >>
    /\ sleeps = << >>
    /\ caught = ""
    /\ exc = NoExc
    /\ downloaded_files = {}
    /\ result = NoneResult
    /\ error_text = ""
    /\ shown = {}

UrlIdle ==
    /\ u = ""
    /\ upc = "start"
    /\ u_valid = FALSE
    /\ u_source = ""
    /\ u_norm1 = ""
    /\ u_norm2 = ""

Init == MainInit /\ UrlIdle

\* "403" in error_msg or "Forbidden" in error_msg   (lines 244, 269)
Is403(error_msg) == Contains(error_msg, "403") \/ Contains(error_msg, "Forbidden")

\* ------------------------------------------------------------------ main
\* The download button's handler up to the call of download_video_content.
MainSubmit_NoValidation ==
    /\ pc = "idle"
    /\ \E v \in UrlSamples, m \in {"audio", "video"}, c \in BOOLEAN, cc \in BOOLEAN :
         /\ video_url' = v
         /\ ope_mode' = m
         /\ use_cookies' = c
         /\ clear_cache' = cc
         /\ IF v = ""
            THEN /\ shown' = {"main:enter_url"}
                 /\ pc' = "rejected"
                 /\ url' = url
            ELSE /\ shown' = {"main:source"}
                 /\ url' = v
                 /\ pc' = "dvc_entry"
    /\ UNCHANGED << cache_clears, temp_dir, files, yt_opt, attempt, fetch_log, sleeps,
                    caught, exc, result, error_text, downloaded_files, urlvars >>

MainSubmit ==
    /\ pc = "idle"
    /\ \E v \in UrlSamples, m \in {"audio", "video"}, c \in BOOLEAN, cc \in BOOLEAN :
         /\ video_url' = v
         /\ ope_mode' = m
         /\ use_cookies' = c
         /\ clear_cache' = cc
         /\ IF v = ""
            THEN /\ shown' = {"main:enter_url"}
                 /\ pc' = "rejected"
                 /\ url' = url
            ELSE IF ~validate_url(v)
            THEN /\ shown' = {"main:invalid_url"}
                 /\ pc' = "rejected"
                 /\ url' = url
            ELSE /\ shown' = {"main:source"}
                 /\ url' = v
                 /\ pc' = "dvc_entry"
    /\ UNCHANGED << cache_clears, temp_dir, files, yt_opt, attempt, fetch_log, sleeps,
                    caught, exc, result, error_text, downloaded_files, urlvars >>

\* The sidebar button: clear_cache() in a run in which the download button
\* is not pressed.  clear_cache swallows every Exception (lines 174, 180).
MainManualClearCache ==
    /\ pc = "idle"
    /\ cache_clears' = cache_clears \cup {"sidebar"}
    /\ pc' = "done"
    /\ UNCHANGED << video_url, ope_mode, use_cookies, clear_cache, url, temp_dir, files,
                    yt_opt, attempt, fetch_log, sleeps, caught, exc, result, error_text,
                    shown, downloaded_files, urlvars >>

\* ------------------------------------------------ download_video_content
\* What leaves a try block whose except clause is `except Exception`.
except_Exception_catches_nothing(e) == FALSE

except_Exception_catches(e) == e.cls = "Exception"

\* Where control goes when exception e leaves the body of the outer try
\* (after the with block, if it was entered, has been left).
AfterRaise(e) == IF except_Exception_catches(e) THEN "handler" ELSE "propagated"

\* if clear_cache_first: VideoDownloader.clear_cache()
DvcClearCache ==
    /\ pc = "dvc_entry"
    /\ cache_clears' = IF clear_cache THEN cache_clears \cup {"dvc"} ELSE cache_clears
    /\ pc' = "normalize"
    /\ UNCHANGED << video_url, ope_mode, use_cookies, clear_cache, url, temp_dir, files,
                    yt_opt, attempt, fetch_log, sleeps, caught, exc, result, error_text,
                    shown, downloaded_files, urlvars >>

DvcNormalize ==
    /\ pc = "normalize"
    /\ url' = IF get_video_source(url) = "youku" THEN normalize_youku_url(url) ELSE url
    /\ pc' = "mkdtemp"
    /\ UNCHANGED << video_url, ope_mode, use_cookies, clear_cache, cache_clears, temp_dir,
                    files, yt_opt, attempt, fetch_log, sleeps, caught, exc, result,
                    error_text, shown, downloaded_files, urlvars >>

\* with tempfile.TemporaryDirectory() as temp_dir: mkdtemp succeeds or
\* raises OSError.
DvcMkdtemp ==
    /\ pc = "mkdtemp"
    /\ \/ /\ temp_dir' = "exists"
          /\ files' = {}
          /\ pc' = "options"
          /\ exc' = exc
       \/ /\ exc' = [cls |-> "Exception", msg |-> "OSError: mkdtemp"]
          /\ pc' = AfterRaise(exc')
          /\ UNCHANGED << temp_dir, files >>
    /\ UNCHANGED << video_url, ope_mode, use_cookies, clear_cache, url, cache_clears,
                    yt_opt, attempt, fetch_log, sleeps, caught, result, error_text,
                    shown, downloaded_files, urlvars >>

DvcOptions ==
    /\ pc = "options"
    /\ yt_opt' = get_download_options(ope_mode, use_cookies)
    /\ attempt' = 0
    /\ pc' = "attempt"
    /\ UNCHANGED << video_url, ope_mode, use_cookies, clear_cache, url, cache_clears,
                    temp_dir, files, fetch_log, sleeps, caught, exc, result, error_text,
                    shown, downloaded_files, urlvars >>

\* The directory after a fetch call of attempt k that wrote w ("" : nothing).
Written(fs, w, k) ==
    IF w = "" THEN fs ELSE { f \in fs : f[1] # w } \cup { << w, k >> }

\* One iteration of `for attempt in range(max_attempts)`: yt.download([url])
\* returns, raises an Exception with a message, or raises an exception that
\* is not an Exception (KeyboardInterrupt, or the script-control exception
\* st.progress raises inside progress_hook).
DvcAttempt ==
    /\ pc = "attempt"
    /\ \E w \in FileNames \cup {""} :
         /\ files' = Written(files, w, attempt + 1)
         /\ \/ /\ fetch_log' = Append(fetch_log, FetchOk)
               /\ pc' = "resolve"
               /\ UNCHANGED << caught, exc >>
            \/ \E m \in FetchMsgs :
               /\ fetch_log' = Append(fetch_log, m)
               /\ caught' = m
               /\ pc' = "except_inner"
               /\ exc' = exc
            \/ /\ fetch_log' = Append(fetch_log, FetchBase)
               /\ exc' = [cls |-> "BaseException", msg |-> ""]
               /\ pc' = "with_exit"
               /\ caught' = caught
    /\ UNCHANGED << video_url, ope_mode, use_cookies, clear_cache, url, cache_clears,
                    temp_dir, yt_opt, attempt, sleeps, result, error_text, shown, downloaded_files, urlvars >>

\* wait_time = (attempt + 1) * 2
wait_time_constant(a) == 2

wait_time(a) == (a + 1) * 2

\* Lines 244-252: what the inner except clause does with error_msg.
retry_decision_any_error(error_msg, a) ==
    IF a < max_attempts - 1 THEN "sleep" ELSE "raise_persistent"

retry_decision_relabel(error_msg, a) ==
    IF Is403(error_msg) /\ a < max_attempts - 1 THEN "sleep" ELSE "raise_persistent"

retry_decision(error_msg, a) ==
    IF Is403(error_msg)
    THEN IF a < max_attempts - 1 THEN "sleep" ELSE "raise_persistent"
    ELSE "reraise"

DvcExceptInner ==
    /\ pc = "except_inner"
    /\ LET d == retry_decision(caught, attempt) IN
       \/ /\ d = "sleep"
          /\ sleeps' = Append(sleeps, wait_time(attempt))
          /\ attempt' = attempt + 1
          /\ pc' = IF attempt + 1 < max_attempts THEN "attempt" ELSE "resolve"
          /\ exc' = exc
       \/ /\ d = "raise_persistent"
          /\ exc' = [cls |-> "Exception", msg |-> PersistentMsg]
          /\ pc' = "with_exit"
          /\ UNCHANGED << sleeps, attempt >>
       \/ /\ d = "reraise"
          /\ exc' = [cls |-> "Exception", msg |-> caught]
          /\ pc' = "with_exit"
          /\ UNCHANGED << sleeps, attempt >>
    /\ caught' = ""
    /\ UNCHANGED << video_url, ope_mode, use_cookies, clear_cache, url, cache_clears,
                    temp_dir, files, yt_opt, fetch_log, result, error_text, shown, downloaded_files, urlvars >>

DvcResolve_NoEmptyCheck ==
    /\ pc = "resolve"
    /\ downloaded_files' = files
    /\ IF files # {}
       THEN \E f \in files :
              \/ /\ result' = [ok |-> TRUE, file_data |-> f[2], file_name |-> f[1]]
                 /\ exc' = exc
              \/ /\ exc' = [cls |-> "Exception", msg |-> "OSError: read"]
                 /\ result' = result
       ELSE /\ exc' = [cls |-> "Exception", msg |-> "IndexError: list index out of range"]
            /\ result' = result
    /\ pc' = "with_exit"
    /\ UNCHANGED << video_url, ope_mode, use_cookies, clear_cache, url, cache_clears,
                    temp_dir, files, yt_opt, attempt, fetch_log, sleeps, caught,
                    error_text, shown, urlvars >>

\* Lines 255-262: glob, then open/read of downloaded_files[0] (glob's order
\* is the directory's, so any entry may come first), or return None.
DvcResolve ==
    /\ pc = "resolve"
    /\ downloaded_files' = files
    /\ IF files # {}
       THEN \E f \in files :
              \/ /\ result' = [ok |-> TRUE, file_data |-> f[2], file_name |-> f[1]]
                 /\ exc' = exc
              \/ /\ exc' = [cls |-> "Exception", msg |-> "OSError: read"]
                 /\ result' = result
       ELSE /\ result' = NoneResult
            /\ exc' = exc
    /\ pc' = "with_exit"
    /\ UNCHANGED << video_url, ope_mode, use_cookies, clear_cache, url, cache_clears,
                    temp_dir, files, yt_opt, attempt, fetch_log, sleeps, caught,
                    error_text, shown, urlvars >>

\* TemporaryDirectory.__exit__: runs on return and on every exception.
DvcWithExit_NoCleanup ==
    /\ pc = "with_exit"
    /\ pc' = IF exc = NoExc THEN "returned" ELSE AfterRaise(exc)
    /\ UNCHANGED << video_url, ope_mode, use_cookies, clear_cache, url, cache_clears,
                    temp_dir, files, yt_opt, attempt, fetch_log, sleeps, caught, exc,
                    result, error_text, shown, downloaded_files, urlvars >>

DvcWithExit ==
    /\ pc = "with_exit"
    /\ temp_dir' = "removed"
    /\ files' = {}
    /\ pc' = IF exc = NoExc THEN "returned" ELSE AfterRaise(exc)
    /\ UNCHANGED << video_url, ope_mode, use_cookies, clear_cache, url, cache_clears,
                    yt_opt, attempt, fetch_log, sleeps, caught, exc, result, error_text,
                    shown, downloaded_files, urlvars >>

\* except Exception as error (lines 264-299)
DvcHandler ==
    /\ pc = "handler"
    /\ error_text' = exc.msg
    /\ shown' = shown \cup {"dvc:error"}
                 \cup (IF Is403(exc.msg) THEN {"dvc:403_advice"} ELSE {})
                 \cup (IF get_video_source(url) = "youku" THEN {"dvc:youku_note"} ELSE {})
    /\ result' = NoneResult
    /\ exc' = NoExc
    /\ pc' = "returned"
    /\ UNCHANGED << video_url, ope_mode, use_cookies, clear_cache, url, cache_clears,
                    temp_dir, files, yt_opt, attempt, fetch_log, sleeps, caught, downloaded_files, urlvars >>

\* A display call (st.info, st.warning, st.error) inside
\* download_video_content raises Streamlit's script-control exception, which
\* is not an Exception: lines 172/178 (clear_cache), 209, 218, 233, 242/247,
\* 266-293.
DisplayInterrupt ==
    /\ \/ pc = "dvc_entry" /\ clear_cache
       \/ pc = "normalize" /\ get_video_source(url) = "youku" /\ normalize_youku_url(url) # url
       \/ pc \in {"options", "attempt", "except_inner", "handler"}
    /\ cache_clears' = IF pc = "dvc_entry" THEN cache_clears \cup {"dvc"} ELSE cache_clears
    /\ exc' = [cls |-> "BaseException", msg |-> ""]
    /\ pc' = IF temp_dir = "exists" THEN "with_exit" ELSE AfterRaise(exc')
    /\ UNCHANGED << video_url, ope_mode, use_cookies, clear_cache, url, temp_dir, files,
                    yt_opt, attempt, fetch_log, sleeps, caught, result, error_text,
                    shown, downloaded_files, urlvars >>

\* main, lines 406-430: `if result:` after download_video_content returned.
MainAfter ==
    /\ pc = "returned"
    /\ shown' = shown \cup
         (IF result.ok
          THEN {"main:success"}
          ELSE {"main:failed"} \cup
               (IF get_video_source(video_url) = "youku" THEN {"main:youku_note"} ELSE {}))
    /\ pc' = "done"
    /\ UNCHANGED << video_url, ope_mode, use_cookies, clear_cache, url, cache_clears,
                    temp_dir, files, yt_opt, attempt, fetch_log, sleeps, caught, exc,
                    result, error_text, downloaded_files, urlvars >>

\* The next user interaction reruns the script from the top.
Rerun ==
    /\ pc \in {"rejected", "done", "propagated"}
    /\ pc' = "idle"
    /\ video_url' = ""
    /\ ope_mode' = "audio"
    /\ use_cookies' = FALSE
    /\ clear_cache' = FALSE
    /\ url' = ""
    /\ cache_clears' = {}
    /\ temp_dir' = "none"
    /\ files' = {}
    /\ yt_opt' = NoOpt
    /\ attempt' = 0
    /\ fetch_log' = << >>
    /\ sleeps' = << >>
    /\ caught' = ""
    /\ exc' = NoExc
    /\ downloaded_files' = {}
    /\ result' = NoneResult
    /\ error_text' = ""
    /\ shown' = {}
    /\ UNCHANGED urlvars

Next ==
    \/ MainSubmit
    \/ MainManualClearCache
    \/ DvcClearCache
    \/ DvcNormalize
    \/ DvcMkdtemp
    \/ DvcOptions
    \/ DvcAttempt
    \/ DvcExceptInner
    \/ DvcResolve
    \/ DvcWithExit
    \/ DvcHandler
    \/ DisplayInterrupt
    \/ MainAfter
    \/ Rerun

Spec == Init /\ [][Next]_vars

\* ------------------------------------------- evaluation of the URL functions
\* Pieces from which input URLs are built.
Fragments == { "https://www.youtube.com/", "https://youtu.be/", "https://v.youku.com/",
               "https://m.youku.com/", "http://x/", "youku.com", "vid=", "&", "a" }

RECURSIVE Concat(_)
Concat(fs) == IF fs = << >> THEN "" ELSE Head(fs) \o Concat(Tail(fs))

UrlInputs == { Concat(fs) : fs \in UNION { [1..n -> Fragments] : n \in 0..MaxFrags } }

UrlInit ==
    /\ MainInit
    /\ u \in UrlInputs
    /\ upc = "start"
    /\ u_valid = FALSE
    /\ u_source = ""
    /\ u_norm1 = ""
    /\ u_norm2 = ""

UrlValidate ==
    /\ upc = "start"
    /\ u_valid' = validate_url(u)
    /\ upc' = "validated"
    /\ UNCHANGED << u, u_source, u_norm1, u_norm2, mainvars >>

UrlClassify ==
    /\ upc = "validated"
    /\ u_source' = get_video_source(u)
    /\ upc' = "classified"
    /\ UNCHANGED << u, u_valid, u_norm1, u_norm2, mainvars >>

UrlNormalize ==
    /\ upc = "classified"
    /\ u_norm1' = normalize_youku_url(u)
    /\ upc' = "normalized"
    /\ UNCHANGED << u, u_valid, u_source, u_norm2, mainvars >>

UrlNormalizeAgain ==
    /\ upc = "normalized"
    /\ u_norm2' = normalize_youku_url(u_norm1)
    /\ upc' = "done"
    /\ UNCHANGED << u, u_valid, u_source, u_norm1, mainvars >>

UrlNext == UrlValidate \/ UrlClassify \/ UrlNormalize \/ UrlNormalizeAgain

SpecUrl == UrlInit /\ [][UrlNext]_vars

\* ================================================================ claims
ForbiddenError(o) == o \in FetchMsgs /\ Is403(o)
OtherError(o) == o \in FetchMsgs /\ ~Is403(o)
AllForbidden == fetch_log # << >> /\ \A i \in DOMAIN fetch_log : ForbiddenError(fetch_log[i])

\* C1: when every yt.download call raises an error whose message contains
\* "403" or "Forbidden", download_video_content returns after exactly
\* max_attempts fetch calls, having slept 2 s and then 4 s (and not after the
\* last attempt), with result None and the persistent-403 diagnostic.
C1_PersistentForbidden ==
    (pc = "returned" /\ AllForbidden) =>
        /\ Len(fetch_log) = 3
        /\ sleeps = << 2, 4 >>
        /\ ~result.ok
        /\ error_text = PersistentMsg
        /\ "dvc:403_advice" \in shown

C1_Witness ==
    /\ pc = "returned"
    /\ AllForbidden
    /\ Len(fetch_log) = 3
    /\ error_text = PersistentMsg

\* C2: an error without "403"/"Forbidden" raised by attempt n ends the
\* request at once: it is the last fetch call, no sleep follows it, and the
\* function returns None showing that error's own message and no 403 advice.
C2_OtherErrorIsTerminal ==
    \A i \in DOMAIN fetch_log :
        OtherError(fetch_log[i]) =>
            /\ i = Len(fetch_log)
            /\ Len(sleeps) = i - 1
            /\ pc \in {"except_inner", "with_exit", "handler", "returned", "done", "propagated"}
            /\ (pc = "returned" =>
                   /\ ~result.ok
                   /\ error_text = fetch_log[i]
                   /\ "dvc:error" \in shown
                   /\ "dvc:403_advice" \notin shown)

C2_Witness ==
    /\ pc = "returned"
    /\ fetch_log = << "timed out" >>
    /\ sleeps = << >>
    /\ error_text = "timed out"

\* C3: a request makes at most max_attempts fetch calls, and every fetch call
\* but the last one ended in a 403-signature error (followed by one sleep).
C3_BoundedRetries ==
    /\ Len(fetch_log) <= max_attempts
    /\ \A i \in 1..(Len(fetch_log) - 1) : ForbiddenError(fetch_log[i])
    /\ Len(sleeps) <= Len(fetch_log)
    /\ Len(fetch_log) > 0 => Len(sleeps) >= Len(fetch_log) - 1

C3_Witness ==
    /\ Len(fetch_log) = max_attempts
    /\ fetch_log[max_attempts] = FetchOk

\* C4: whenever download_video_content has been left (by return or by an
\* exception), the scratch directory it created no longer exists.
C4_ScratchRemoved ==
    pc \in {"returned", "propagated", "done", "handler"} => temp_dir # "exists"

C4_Witness ==
    /\ pc = "returned"
    /\ temp_dir = "removed"
    /\ error_text = "OSError: read"

\* C5: when the last fetch call returned without raising and glob found no
\* entry, the function returns None without going through the error handler
\* (no exception, no error text), and main reports the download as failed.
EmptyOutputCase ==
    /\ fetch_log # << >>
    /\ fetch_log[Len(fetch_log)] = FetchOk
    /\ downloaded_files = {}

C5_EmptyOutput ==
    /\ (pc = "returned" /\ EmptyOutputCase) =>
           /\ ~result.ok
           /\ exc = NoExc
           /\ error_text = ""
           /\ "dvc:error" \notin shown
    /\ (pc = "done" /\ EmptyOutputCase) =>
           /\ "main:failed" \in shown
           /\ "main:success" \notin shown
           /\ "dvc:error" \notin shown

C5_Witness == pc = "done" /\ EmptyOutputCase /\ "main:failed" \in shown

\* C6 (as claimed): no exception ever propagates from download_video_content
\* to main.
C6_NothingPropagates == pc # "propagated"

\* C6 (amended): only an exception that is not an Exception propagates; every
\* Exception raised in the try block ends in a return of None with the error
\* text shown.
C6_OnlyNonExceptionPropagates ==
    /\ pc = "propagated" => exc.cls = "BaseException"
    /\ pc = "handler" => exc.cls = "Exception"
    /\ (pc = "returned" /\ "dvc:error" \in shown) => ~result.ok /\ exc = NoExc

C6_Witness ==
    /\ pc = "returned"
    /\ error_text = "OSError: mkdtemp"
    /\ ~result.ok

\* C7: a submission whose URL is empty or fails validate_url never reaches
\* download_video_content: no fetch call, no scratch directory, no cache
\* clearing by the download path.
C7_InvalidUrlRejected ==
    /\ ("dvc" \in cache_clears \/ fetch_log # << >> \/ temp_dir # "none"
            \/ pc \in {"dvc_entry", "normalize", "mkdtemp"})
          => (video_url # "" /\ validate_url(video_url))
    /\ pc = "rejected" => cache_clears = {} /\ fetch_log = << >> /\ temp_dir = "none"

C7_Witness ==
    /\ pc = "rejected"
    /\ video_url = "https://example.com/a"
    /\ "main:invalid_url" \in shown

\* C8 (as claimed): normalize_youku_url applied twice gives the same string
\* as applied once, for every input.
C8_Idempotent == upc = "done" => u_norm2 = u_norm1

\* C9 (as claimed): when the output is resolved after a successful attempt the
\* scratch directory holds at most one file, and the returned bytes are those
\* written by the successful attempt.
C9_SingleOutputFile ==
    /\ (pc = "resolve" /\ fetch_log[Len(fetch_log)] = FetchOk) => Cardinality(files) <= 1
    /\ (pc = "returned" /\ result.ok) => result.file_data = Len(fetch_log)

\* C10: validate_url(url) holds exactly when get_video_source(url) is not
\* 'unknown'; a validated URL is 'youtube' or 'youku'; a URL with a YouTube
\* prefix is 'youtube' even if it contains 'youku.com'.
YoutubePrefixed(s) ==
    StartsWith(s, "https://www.youtube.com/") \/ StartsWith(s, "https://youtu.be/")

C10_ValidateAgreesWithSource ==
    upc = "done" =>
        /\ u_valid <=> (u_source # "unknown")
        /\ u_valid => u_source \in {"youtube", "youku"}
        /\ YoutubePrefixed(u) => u_source = "youtube"

C10_Witness ==
    /\ upc = "done"
    /\ YoutubePrefixed(u)
    /\ Contains(u, "youku.com")
    /\ u_valid
    /\ u_source = "youtube"

====
